---- MODULE Spec2Model ----
(***************************************************************************)
(* pci-id-parser: the line classifier (src/src/parser.rs), the aggregator  *)
(* Database::parse_db, the lookup Database::get_device_info and the        *)
(* streaming searches find_*_with_reader (src/src/lib.rs).                 *)
(*                                                                         *)
(* Text is a sequence of one-character strings.  A line as the reader      *)
(* returns it (read_until(b'\n')) includes its terminator.                 *)
(*                                                                         *)
(* Event ids: parser.rs validates an id slice with parse_id; lib.rs        *)
(* consumes the id of an event as text (u16::from_str_radix(id, 16),       *)
(* id == format!("{vendor_id:x?}")).  An event of the model carries the    *)
(* id slice of the line as `id` and the parse_id value of it as `num`.     *)
(*                                                                         *)
(* Three specifications share the variables:                               *)
(*   Spec        parse_db reading its reader line by line;                 *)
(*   SpecParser  calls of Parser::next_event alone, over well-formed,      *)
(*               malformed, terminated and unterminated lines;             *)
(*   SpecCalls   parse_db and the three searches applied to a reader whose *)
(*               whole content is given.                                   *)
(***************************************************************************)
EXTENDS Integers, Sequences, FiniteSets, TLC

\* ---------------------------------------------------------------- bounds
MaxLines == 4

\* ------------------------------------------------------------- characters
TAB == "\t"
NL  == "\n"
SP  == " "
NUL == "NUL"

None == [some |-> FALSE]
Some(x) == [some |-> TRUE, val |-> x]

LowerDigits == <<"0","1","2","3","4","5","6","7","8","9","a","b","c","d","e","f">>
UpperDigits == <<"0","1","2","3","4","5","6","7","8","9","A","B","C","D","E","F">>

IsHexDigit(c) == \E i \in 1..16 : LowerDigits[i] = c \/ UpperDigits[i] = c

HexDigitVal(c) == (CHOOSE i \in 1..16 : LowerDigits[i] = c \/ UpperDigits[i] = c) - 1

\* atoi::FromRadix16::from_radix_16: value and length of the longest prefix
\* of hex digits (ids have at most 4 digits, so a u16 cannot overflow).
RECURSIVE FromRadix16Acc(_, _, _)
FromRadix16Acc(value, i, acc) ==
    IF i > Len(value) \/ ~IsHexDigit(value[i])
    THEN [id |-> acc, offset |-> i - 1]
    ELSE FromRadix16Acc(value, i + 1, (acc * 16 + HexDigitVal(value[i])) % 65536)

FromRadix16(value) == FromRadix16Acc(value, 1, 0)

\* parser.rs parse_id: an error only when no digit at all was consumed.
parse_id(value) ==
    [ok |-> FromRadix16(value).offset # 0, id |-> FromRadix16(value).id]

\* u16::from_str_radix(id, 16) / u8::from_str_radix(id, 16): every character
\* must be a hex digit and the value must fit the width.
from_str_radix(id, width) ==
    LET r == FromRadix16(id) IN
    IF Len(id) > 0 /\ r.offset = Len(id) /\ r.id < width
    THEN [ok |-> TRUE, val |-> r.id]
    ELSE [ok |-> FALSE]

\* format!("{n:x?}"): lower-case hex, no prefix, no padding.
RECURSIVE format_x(_)
format_x(n) ==
    IF n < 16 THEN <<LowerDigits[n + 1]>>
    ELSE format_x(n \div 16) \o <<LowerDigits[(n % 16) + 1]>>

\* ------------------------------------------------- needles and lane masks
\* A mask is bits << shift of an i32; kept as the pair so that bit 31 needs
\* no 32-bit arithmetic.
Needle(prefix) == [i \in 1..16 |-> IF i <= Len(prefix) THEN prefix[i] ELSE NUL]

VENDOR_NEEDLE    == Needle(<<NUL, NUL, NUL, NUL, SP, SP>>)
VENDOR_MASK      == [bits |-> 3, shift |-> 26]
DEVICE_NEEDLE    == Needle(<<TAB, NUL, NUL, NUL, NUL, SP, SP>>)
DEVICE_MASK      == [bits |-> 67, shift |-> 25]
SUBDEVICE_NEEDLE == Needle(<<TAB, TAB, NUL, NUL, NUL, NUL, SP, NUL, NUL, NUL, NUL, SP, SP>>)
SUBDEVICE_MASK   == [bits |-> 6211, shift |-> 19]
CLASS_NEEDLE     == Needle(<<"C", SP, NUL, NUL, SP, SP>>)
CLASS_MASK       == [bits |-> 19, shift |-> 26]
SUBCLASS_NEEDLE  == Needle(<<TAB, NUL, NUL, SP, SP>>)
SUBCLASS_MASK    == [bits |-> 19, shift |-> 27]
PROG_IF_NEEDLE   == Needle(<<TAB, TAB, NUL, NUL, SP, SP>>)
PROG_IF_MASK     == [bits |-> 51, shift |-> 26]

\* bit k (0 = least significant) of the 32-bit pattern bits << shift
MaskBit(mask, k) ==
    IF k < mask.shift THEN 0 ELSE (mask.bits \div (2 ^ (k - mask.shift))) % 2

\* a window copy padded with spaces
buf_to_vector_PadsWithSpaces(buf) == [i \in 1..16 |-> IF i <= Len(buf) THEN buf[i] ELSE SP]

\* the first 16 bytes of the line, zero-padded
buf_to_vector(buf) == [i \in 1..16 |-> IF i <= Len(buf) THEN buf[i] ELSE NUL]

\* a comparison that leaves the lanes of the needle's spaces out
matches_pattern_IgnoresSpaces(vector, needle, expected_mask) ==
    \A lane \in 0..15 :
        (MaskBit(expected_mask, 31 - lane) = 1 /\ needle[lane + 1] # SP)
            => vector[lane + 1] = needle[lane + 1]

\* cmp_eq sets lane i, move_mask moves it to bit i, reverse_bits to bit 31-i
matches_pattern(vector, needle, expected_mask) ==
    \A lane \in 0..15 :
        MaskBit(expected_mask, 31 - lane) = 1 => vector[lane + 1] = needle[lane + 1]

\* &buf[from..to] and &buf[from..]: indexing past the end of the line panics
Slice(buf, from, to) == SubSeq(buf, from + 1, to)
SliceFrom(buf, from) ==
    IF from <= Len(buf) THEN [fits |-> TRUE, val |-> SubSeq(buf, from + 1, Len(buf))]
    ELSE [fits |-> FALSE]
StartsWith(buf, c) == Len(buf) > 0 /\ buf[1] = c

\* ---------------------------------------------------- Parser::next_event
\* One pass of the read loop over the line `raw` in section `section`:
\*   Skip  - blank or comment line, the loop reads on
\*   Err   - the call returns an error
\*   Panic - a slice index was past the end of the line, the thread panics
\*   else  - the event; `section` is the parser's section after the call.
Panic(section) == [kind |-> "Panic", section |-> section]

\* the id slice is taken and parsed (`?`), then the name slice is taken
Ev1(kind, r, name, section) ==
    IF ~r.fits THEN Panic(section)
    ELSE IF ~r.ok THEN [kind |-> "Err", err |-> "Parse", section |-> section]
    ELSE IF ~name.fits THEN Panic(section)
    ELSE [kind |-> kind, id |-> r.tok, num |-> r.id, name |-> name.val, section |-> section]

\* an id field: the slice and what parse_id makes of it
Id(buf, from, to) ==
    IF to > Len(buf) THEN [fits |-> FALSE]
    ELSE [fits |-> TRUE,
          ok  |-> parse_id(Slice(buf, from, to)).ok,
          id  |-> parse_id(Slice(buf, from, to)).id,
          tok |-> Slice(buf, from, to)]

ParseErr(section) == [kind |-> "Err", err |-> "Parse", section |-> section]

\* a device arm whose name slices start one byte early
DevicesArm_NameOffByOne(vector, buf) ==
    IF matches_pattern(vector, CLASS_NEEDLE, CLASS_MASK)
    THEN Ev1("Class", Id(buf, 2, 4), SliceFrom(buf, 5), "Classes")
    ELSE IF matches_pattern(vector, DEVICE_NEEDLE, DEVICE_MASK)
    THEN Ev1("Device", Id(buf, 1, 5), SliceFrom(buf, 6), "Devices")
    ELSE IF matches_pattern(vector, VENDOR_NEEDLE, VENDOR_MASK)
    THEN Ev1("Vendor", Id(buf, 0, 4), SliceFrom(buf, 5), "Devices")
    ELSE IF matches_pattern(vector, SUBDEVICE_NEEDLE, SUBDEVICE_MASK)
    THEN LET sv == Id(buf, 2, 6)
             sd == Id(buf, 7, 11)
             subsystem_name == SliceFrom(buf, 12)
         IN IF ~sv.fits THEN Panic("Devices")
            ELSE IF ~sv.ok THEN ParseErr("Devices")
            ELSE IF ~sd.fits THEN Panic("Devices")
            ELSE IF ~sd.ok THEN ParseErr("Devices")
            ELSE IF ~subsystem_name.fits THEN Panic("Devices")
            ELSE [kind |-> "Subdevice", subvendor |-> sv.tok, subdevice |-> sd.tok,
                  subvendor_num |-> sv.id, subdevice_num |-> sd.id,
                  subsystem_name |-> subsystem_name.val, section |-> "Devices"]
    ELSE ParseErr("Devices")

\* parser.rs 87-118: the patterns tried in the device section, in order
DevicesArm(vector, buf) ==
    IF matches_pattern(vector, CLASS_NEEDLE, CLASS_MASK)
    THEN Ev1("Class", Id(buf, 2, 4), SliceFrom(buf, 6), "Classes")
    ELSE IF matches_pattern(vector, DEVICE_NEEDLE, DEVICE_MASK)
    THEN Ev1("Device", Id(buf, 1, 5), SliceFrom(buf, 7), "Devices")
    ELSE IF matches_pattern(vector, VENDOR_NEEDLE, VENDOR_MASK)
    THEN Ev1("Vendor", Id(buf, 0, 4), SliceFrom(buf, 6), "Devices")
    ELSE IF matches_pattern(vector, SUBDEVICE_NEEDLE, SUBDEVICE_MASK)
    THEN LET sv == Id(buf, 2, 6)
             sd == Id(buf, 7, 11)
             subsystem_name == SliceFrom(buf, 13)
         IN IF ~sv.fits THEN Panic("Devices")
            ELSE IF ~sv.ok THEN ParseErr("Devices")
            ELSE IF ~sd.fits THEN Panic("Devices")
            ELSE IF ~sd.ok THEN ParseErr("Devices")
            ELSE IF ~subsystem_name.fits THEN Panic("Devices")
            ELSE [kind |-> "Subdevice", subvendor |-> sv.tok, subdevice |-> sd.tok,
                  subvendor_num |-> sv.id, subdevice_num |-> sd.id,
                  subsystem_name |-> subsystem_name.val, section |-> "Devices"]
    ELSE ParseErr("Devices")

\* a classifier that falls back to the device patterns in the class section
ClassesArmFallThrough(vector, buf) ==
    IF matches_pattern(vector, CLASS_NEEDLE, CLASS_MASK)
    THEN Ev1("Class", Id(buf, 2, 4), SliceFrom(buf, 6), "Classes")
    ELSE IF matches_pattern(vector, SUBCLASS_NEEDLE, SUBCLASS_MASK)
    THEN Ev1("SubClass", Id(buf, 1, 3), SliceFrom(buf, 5), "Classes")
    ELSE IF matches_pattern(vector, PROG_IF_NEEDLE, PROG_IF_MASK)
    THEN Ev1("ProgIf", Id(buf, 2, 4), SliceFrom(buf, 6), "Classes")
    ELSE [DevicesArm(vector, buf) EXCEPT !.section = "Classes"]

\* a class section that a vendor, device or subdevice line ends
ClassesArm_ReturnsToDevices(vector, buf) ==
    IF matches_pattern(vector, CLASS_NEEDLE, CLASS_MASK)
    THEN Ev1("Class", Id(buf, 2, 4), SliceFrom(buf, 6), "Classes")
    ELSE IF matches_pattern(vector, SUBCLASS_NEEDLE, SUBCLASS_MASK)
    THEN Ev1("SubClass", Id(buf, 1, 3), SliceFrom(buf, 5), "Classes")
    ELSE IF matches_pattern(vector, PROG_IF_NEEDLE, PROG_IF_MASK)
    THEN Ev1("ProgIf", Id(buf, 2, 4), SliceFrom(buf, 6), "Classes")
    ELSE DevicesArm(vector, buf)

\* parser.rs 119-139: the patterns tried in the class section, in order
ClassesArm(vector, buf) ==
    IF matches_pattern(vector, CLASS_NEEDLE, CLASS_MASK)
    THEN Ev1("Class", Id(buf, 2, 4), SliceFrom(buf, 6), "Classes")
    ELSE IF matches_pattern(vector, SUBCLASS_NEEDLE, SUBCLASS_MASK)
    THEN Ev1("SubClass", Id(buf, 1, 3), SliceFrom(buf, 5), "Classes")
    ELSE IF matches_pattern(vector, PROG_IF_NEEDLE, PROG_IF_MASK)
    THEN Ev1("ProgIf", Id(buf, 2, 4), SliceFrom(buf, 6), "Classes")
    ELSE ParseErr("Classes")

\* a next_event that classifies comment lines instead of skipping them
next_event_KeepsComments(section, raw) ==
    IF Len(raw) = 0 \/ raw = <<NL>>
    THEN [kind |-> "Skip", section |-> section]
    ELSE LET buf == SubSeq(raw, 1, Len(raw) - 1)
             vector == buf_to_vector(buf)
         IN IF section = "Devices"
            THEN DevicesArm(vector, buf)
            ELSE ClassesArm(vector, buf)

next_event(section, raw) ==
    IF Len(raw) = 0 \/ StartsWith(raw, "#") \/ raw = <<NL>>
    THEN [kind |-> "Skip", section |-> section]
    ELSE LET buf == SubSeq(raw, 1, Len(raw) - 1)
             vector == buf_to_vector(buf)
         IN IF section = "Devices"
            THEN DevicesArm(vector, buf)
            ELSE ClassesArm(vector, buf)

\* ------------------------------------------------------------ the reader
\* The lines the reader can deliver.  Ids are written as in pci.ids (4 or 2
\* hex digits); two spellings of ids are used, one with leading zeros.
Tok0010 == <<"0", "0", "1", "0">>
Tok1a00 == <<"1", "a", "0", "0">>
Tok01   == <<"0", "1">>
Tok0a   == <<"0", "a">>
NameA   == <<"A">>
NameB   == <<"B">>

VendorLine(id, name)    == id \o <<SP, SP>> \o name \o <<NL>>
DeviceLine(id, name)    == <<TAB>> \o id \o <<SP, SP>> \o name \o <<NL>>
SubdeviceLine(sv, sd, name) ==
    <<TAB, TAB>> \o sv \o <<SP>> \o sd \o <<SP, SP>> \o name \o <<NL>>
ClassLine(id, name)     == <<"C", SP>> \o id \o <<SP, SP>> \o name \o <<NL>>
SubClassLine(id, name)  == <<TAB>> \o id \o <<SP, SP>> \o name \o <<NL>>
ProgIfLine(id, name)    == <<TAB, TAB>> \o id \o <<SP, SP>> \o name \o <<NL>>
CommentLine             == <<"#", NL>>
BlankLine               == <<NL>>

Lines ==
    {VendorLine(t, n) : t \in {Tok0010, Tok1a00}, n \in {NameA, NameB}}
    \cup {DeviceLine(t, n) : t \in {Tok0010, Tok1a00}, n \in {NameA, NameB}}
    \cup {SubdeviceLine(t, Tok1a00, NameA) : t \in {Tok0010, Tok1a00}}
    \cup {ClassLine(t, NameA) : t \in {Tok01, Tok0a}}
    \cup {SubClassLine(t, NameB) : t \in {Tok01, Tok0a}}
    \cup {ProgIfLine(Tok01, NameA)}
    \cup {CommentLine}

\* the u16 values a caller may ask for
QueryIds == {16, 6656}

\* ------------------------------------------------------------------ maps
EmptyMap == [k \in {} |-> k]
\* an insert that leaves an occupied key as it is
Insert_KeepsFirst(m, key, value) ==
    IF key \in DOMAIN m THEN m
    ELSE [k \in (DOMAIN m) \cup {key} |-> IF k = key THEN value ELSE m[k]]

Insert(m, key, value) ==
    [k \in (DOMAIN m) \cup {key} |-> IF k = key THEN value ELSE m[k]]
Get(m, key) == IF key \in DOMAIN m THEN Some(m[key]) ELSE None

\* ------------------------------------------------------ Database::parse_db
VARIABLES
    stream,            \* the lines read from the reader so far
    section,           \* parser.section
    current_vendor,    \* Option<(u16, Vendor)>
    current_device,    \* Option<(u16, Device)>
    current_class,     \* Option<(u8, Class)>
    current_subclass,  \* Option<(u8, SubClass)>
    vendors,           \* HashMap<u16, Vendor>
    classes,           \* HashMap<u8, Class>
    result             \* None while the loop runs, then Ok(Database) or Err

vars == <<stream, section, current_vendor, current_device, current_class,
          current_subclass, vendors, classes, result>>

Locals ==
    [current_vendor |-> current_vendor, current_device |-> current_device,
     current_class |-> current_class, current_subclass |-> current_subclass,
     vendors |-> vendors, classes |-> classes]

Failed == [err |-> TRUE]
Done(l) == [err |-> FALSE, l |-> l]

\* a commit that drops an open device that has no open vendor
CommitDevice_DropsOrphan(l) ==
    IF ~l.current_device.some THEN Done(l)
    ELSE IF ~l.current_vendor.some THEN Done([l EXCEPT !.current_device = None])
    ELSE LET d == l.current_device.val
             v == l.current_vendor.val
         IN Done([l EXCEPT !.current_device = None,
                           !.current_vendor =
                               Some([id |-> v.id,
                                     rec |-> [v.rec EXCEPT !.devices = Insert(@, d.id, d.rec)]])])

\* lib.rs 92-97, 113-119, 200-205: commit the open device into the open vendor
CommitDevice(l) ==
    IF ~l.current_device.some THEN Done(l)
    ELSE IF ~l.current_vendor.some THEN Failed
    ELSE LET d == l.current_device.val
             v == l.current_vendor.val
         IN Done([l EXCEPT !.current_device = None,
                           !.current_vendor =
                               Some([id |-> v.id,
                                     rec |-> [v.rec EXCEPT !.devices = Insert(@, d.id, d.rec)]])])

\* lib.rs 98-100, 206-208: commit the open vendor into vendors
CommitVendor(l) ==
    IF ~l.current_vendor.some THEN l
    ELSE [l EXCEPT !.current_vendor = None,
                   !.vendors = Insert(@, l.current_vendor.val.id, l.current_vendor.val.rec)]

\* lib.rs 151-156, 171-176, 210-214: commit the open subclass into the open class
CommitSubClass(l) ==
    IF ~l.current_subclass.some THEN Done(l)
    ELSE IF ~l.current_class.some THEN Failed
    ELSE LET s == l.current_subclass.val
             c == l.current_class.val
         IN Done([l EXCEPT !.current_subclass = None,
                           !.current_class =
                               Some([id |-> c.id,
                                     rec |-> [c.rec EXCEPT !.subclasses = Insert(@, s.id, s.rec)]])])

\* lib.rs 157-159, 215-217: commit the open class into classes
CommitClass(l) ==
    IF ~l.current_class.some THEN l
    ELSE [l EXCEPT !.current_class = None,
                   !.classes = Insert(@, l.current_class.val.id, l.current_class.val.rec)]

\* a Vendor arm that reopens the record already committed under the same id
VendorArm_Reopens(l, ev) ==
    LET a == CommitDevice(l) IN
    IF a.err THEN Failed
    ELSE LET id == from_str_radix(ev.id, 65536) IN
         IF ~id.ok THEN Failed
         ELSE LET c == CommitVendor(a.l) IN
              Done([c EXCEPT !.current_vendor =
                      Some([id |-> id.val,
                            rec |-> [name |-> ev.name,
                                     devices |-> IF id.val \in DOMAIN c.vendors
                                                 THEN c.vendors[id.val].devices
                                                 ELSE EmptyMap]])])

\* a Vendor arm that leaves the open device open
VendorArm_KeepsDevice(l, ev) ==
    LET id == from_str_radix(ev.id, 65536) IN
    IF ~id.ok THEN Failed
    ELSE Done([CommitVendor(l) EXCEPT !.current_vendor =
                   Some([id |-> id.val,
                         rec |-> [name |-> ev.name, devices |-> EmptyMap]])])

VendorArm(l, ev) ==
    LET a == CommitDevice(l) IN
    IF a.err THEN Failed
    ELSE LET id == from_str_radix(ev.id, 65536) IN
         IF ~id.ok THEN Failed
         ELSE Done([CommitVendor(a.l) EXCEPT !.current_vendor =
                        Some([id |-> id.val,
                              rec |-> [name |-> ev.name, devices |-> EmptyMap]])])

DeviceArm(l, ev) ==
    LET a == CommitDevice(l) IN
    IF a.err THEN Failed
    ELSE LET id == from_str_radix(ev.id, 65536) IN
         IF ~id.ok THEN Failed
         ELSE Done([a.l EXCEPT !.current_device =
                        Some([id |-> id.val,
                              rec |-> [name |-> ev.name, subdevices |-> EmptyMap]])])

\* a Subdevice arm that drops a subdevice that has no open device
SubdeviceArm_DropsOrphan(l, ev) ==
    IF ~l.current_device.some THEN Done(l)
    ELSE LET sv == from_str_radix(ev.subvendor, 65536)
             sd == from_str_radix(ev.subdevice, 65536)
             d  == l.current_device.val
         IN IF ~sv.ok \/ ~sd.ok THEN Failed
            ELSE Done([l EXCEPT !.current_device =
                        Some([id |-> d.id,
                              rec |-> [d.rec EXCEPT !.subdevices =
                                  Insert(@, [subvendor |-> sv.val, subdevice |-> sd.val],
                                         ev.subsystem_name)]])])

SubdeviceArm(l, ev) ==
    IF ~l.current_device.some THEN Failed
    ELSE LET sv == from_str_radix(ev.subvendor, 65536)
             sd == from_str_radix(ev.subdevice, 65536)
             d  == l.current_device.val
         IN IF ~sv.ok \/ ~sd.ok THEN Failed
            ELSE Done([l EXCEPT !.current_device =
                        Some([id |-> d.id,
                              rec |-> [d.rec EXCEPT !.subdevices =
                                  Insert(@, [subvendor |-> sv.val, subdevice |-> sd.val],
                                         ev.subsystem_name)]])])

\* a Class arm that leaves the open subclass open
ClassArm_KeepsSubClass(l, ev) ==
    LET id == from_str_radix(ev.id, 256) IN
    IF ~id.ok THEN Failed
    ELSE Done([CommitClass(l) EXCEPT !.current_class =
                   Some([id |-> id.val,
                         rec |-> [name |-> ev.name, subclasses |-> EmptyMap]])])

ClassArm(l, ev) ==
    LET a == CommitSubClass(l) IN
    IF a.err THEN Failed
    ELSE LET id == from_str_radix(ev.id, 256) IN
         IF ~id.ok THEN Failed
         ELSE Done([CommitClass(a.l) EXCEPT !.current_class =
                        Some([id |-> id.val,
                              rec |-> [name |-> ev.name, subclasses |-> EmptyMap]])])

SubClassArm(l, ev) ==
    LET a == CommitSubClass(l) IN
    IF a.err THEN Failed
    ELSE LET id == from_str_radix(ev.id, 256) IN
         IF ~id.ok THEN Failed
         ELSE Done([a.l EXCEPT !.current_subclass =
                        Some([id |-> id.val,
                              rec |-> [name |-> ev.name, prog_ifs |-> EmptyMap]])])

ProgIfArm(l, ev) ==
    IF ~l.current_subclass.some THEN Failed
    ELSE LET id == from_str_radix(ev.id, 256)
             s  == l.current_subclass.val
         IN IF ~id.ok THEN Failed
            ELSE Done([l EXCEPT !.current_subclass =
                        Some([id |-> s.id,
                              rec |-> [s.rec EXCEPT !.prog_ifs = Insert(@, id.val, ev.name)]])])

\* a flush that commits the vendor before the device
FinalFlush_VendorFirst(l) ==
    LET a == CommitDevice(CommitVendor(l)) IN
    IF a.err THEN Failed
    ELSE LET b == CommitSubClass(a.l) IN
         IF b.err THEN Failed ELSE Done(CommitClass(b.l))

\* lib.rs 199-222: flush the open slots, device, vendor, subclass, class
FinalFlush(l) ==
    LET a == CommitDevice(l) IN
    IF a.err THEN Failed
    ELSE LET b == CommitSubClass(CommitVendor(a.l)) IN
         IF b.err THEN Failed ELSE Done(CommitClass(b.l))

Arm(l, ev) ==
    CASE ev.kind = "Vendor"    -> VendorArm(l, ev)
      [] ev.kind = "Device"    -> DeviceArm(l, ev)
      [] ev.kind = "Subdevice" -> SubdeviceArm(l, ev)
      [] ev.kind = "Class"     -> ClassArm(l, ev)
      [] ev.kind = "SubClass"  -> SubClassArm(l, ev)
      [] ev.kind = "ProgIf"    -> ProgIfArm(l, ev)

Init ==
    /\ stream = <<>>
    /\ section = "Devices"
    /\ current_vendor = None
    /\ current_device = None
    /\ current_class = None
    /\ current_subclass = None
    /\ vendors = EmptyMap
    /\ classes = EmptyMap
    /\ result = None

SetLocals(l) ==
    /\ current_vendor' = l.current_vendor
    /\ current_device' = l.current_device
    /\ current_class' = l.current_class
    /\ current_subclass' = l.current_subclass
    /\ vendors' = l.vendors
    /\ classes' = l.classes

KeepLocals ==
    UNCHANGED <<current_vendor, current_device, current_class, current_subclass,
                vendors, classes>>

\* the arm of parse_db for the event `ev` of the line `raw` folds it into the
\* locals, or the call returns the arm's error
Fold(raw, ev) ==
    /\ stream' = Append(stream, raw)
    /\ section' = ev.section
    /\ LET a == Arm(Locals, ev) IN
       IF a.err
       THEN KeepLocals /\ result' = Some([kind |-> "Err", err |-> "Parse"])
       ELSE SetLocals(a.l) /\ result' = None

Reading == ~result.some /\ Len(stream) < MaxLines

OnVendor ==
    /\ Reading
    /\ \E raw \in Lines :
        /\ next_event(section, raw).kind = "Vendor"
        /\ Fold(raw, next_event(section, raw))

OnDevice ==
    /\ Reading
    /\ \E raw \in Lines :
        /\ next_event(section, raw).kind = "Device"
        /\ Fold(raw, next_event(section, raw))

OnSubdevice ==
    /\ Reading
    /\ \E raw \in Lines :
        /\ next_event(section, raw).kind = "Subdevice"
        /\ Fold(raw, next_event(section, raw))

OnClass ==
    /\ Reading
    /\ \E raw \in Lines :
        /\ next_event(section, raw).kind = "Class"
        /\ Fold(raw, next_event(section, raw))

OnSubClass ==
    /\ Reading
    /\ \E raw \in Lines :
        /\ next_event(section, raw).kind = "SubClass"
        /\ Fold(raw, next_event(section, raw))

OnProgIf ==
    /\ Reading
    /\ \E raw \in Lines :
        /\ next_event(section, raw).kind = "ProgIf"
        /\ Fold(raw, next_event(section, raw))

\* a blank or comment line: next_event reads on
SkipLine ==
    /\ Reading
    /\ \E raw \in Lines :
        /\ next_event(section, raw).kind = "Skip"
        /\ stream' = Append(stream, raw)
        /\ UNCHANGED <<section, result>>
        /\ KeepLocals

\* next_event fails on the line: parse_db returns the error (lib.rs 88, `?`)
OnParseError ==
    /\ Reading
    /\ \E raw \in Lines :
        LET ev == next_event(section, raw) IN
        /\ ev.kind = "Err"
        /\ stream' = Append(stream, raw)
        /\ section' = ev.section
        /\ result' = Some([kind |-> "Err", err |-> ev.err])
        /\ KeepLocals

\* read_until returns 0: next_event returns Ok(None), parse_db flushes
EndOfInput ==
    /\ ~result.some
    /\ LET a == FinalFlush(Locals) IN
       IF a.err
       THEN KeepLocals /\ result' = Some([kind |-> "Err", err |-> "Parse"])
       ELSE /\ SetLocals(a.l)
            /\ result' = Some([kind |-> "Ok", vendors |-> a.l.vendors,
                               classes |-> a.l.classes])
    /\ UNCHANGED <<stream, section>>

Next ==
    \/ OnVendor
    \/ OnDevice
    \/ OnSubdevice
    \/ OnClass
    \/ OnSubClass
    \/ OnProgIf
    \/ SkipLine
    \/ OnParseError
    \/ EndOfInput

Spec == Init /\ [][Next]_vars

Returned == result.some /\ result.val.kind = "Ok"
db == result.val

\* ------------------------------------------------ Database::get_device_info
NoInfo ==
    [vendor_name |-> None, device_name |-> None,
     subvendor_name |-> None, subdevice_name |-> None]

\* a lookup that resolves the subsystem vendor before the chip vendor is found
get_device_info_EagerSubvendor(d, vendor_id, model_id, subsys_vendor_id, subsys_model_id) ==
    LET subvendor_name ==
            IF subsys_vendor_id \in DOMAIN d.vendors
            THEN Some(d.vendors[subsys_vendor_id].name) ELSE None
    IN
    IF vendor_id \notin DOMAIN d.vendors
    THEN [NoInfo EXCEPT !.subvendor_name = subvendor_name]
    ELSE LET vendor == d.vendors[vendor_id] IN
         IF model_id \notin DOMAIN vendor.devices
         THEN [NoInfo EXCEPT !.vendor_name = Some(vendor.name),
                             !.subvendor_name = subvendor_name]
         ELSE LET device == vendor.devices[model_id]
                  subdevice_id == [subvendor |-> subsys_vendor_id,
                                   subdevice |-> subsys_model_id]
              IN [vendor_name    |-> Some(vendor.name),
                  device_name    |-> Some(device.name),
                  subvendor_name |-> subvendor_name,
                  subdevice_name |-> Get(device.subdevices, subdevice_id)]

\* a lookup that names the subsystem vendor only when the subdevice is known
get_device_info_SubvendorOfSubdevice(d, vendor_id, model_id, subsys_vendor_id, subsys_model_id) ==
    IF vendor_id \notin DOMAIN d.vendors THEN NoInfo
    ELSE LET vendor == d.vendors[vendor_id] IN
         IF model_id \notin DOMAIN vendor.devices
         THEN [NoInfo EXCEPT !.vendor_name = Some(vendor.name)]
         ELSE LET device == vendor.devices[model_id]
                  subdevice_id == [subvendor |-> subsys_vendor_id,
                                   subdevice |-> subsys_model_id]
              IN [vendor_name    |-> Some(vendor.name),
                  device_name    |-> Some(device.name),
                  subvendor_name |->
                      IF subsys_vendor_id \in DOMAIN d.vendors
                         /\ subdevice_id \in DOMAIN device.subdevices
                      THEN Some(d.vendors[subsys_vendor_id].name) ELSE None,
                  subdevice_name |-> Get(device.subdevices, subdevice_id)]

\* a lookup that matches a subdevice on the subsystem vendor alone
get_device_info_SubvendorKeyOnly(d, vendor_id, model_id, subsys_vendor_id, subsys_model_id) ==
    IF vendor_id \notin DOMAIN d.vendors THEN NoInfo
    ELSE LET vendor == d.vendors[vendor_id] IN
         IF model_id \notin DOMAIN vendor.devices
         THEN [NoInfo EXCEPT !.vendor_name = Some(vendor.name)]
         ELSE LET device == vendor.devices[model_id]
                  keys == {k \in DOMAIN device.subdevices : k.subvendor = subsys_vendor_id}
              IN [vendor_name    |-> Some(vendor.name),
                  device_name    |-> Some(device.name),
                  subvendor_name |->
                      IF subsys_vendor_id \in DOMAIN d.vendors
                      THEN Some(d.vendors[subsys_vendor_id].name) ELSE None,
                  subdevice_name |->
                      IF keys = {} THEN None
                      ELSE Some(device.subdevices[CHOOSE k \in keys : TRUE])]

get_device_info(d, vendor_id, model_id, subsys_vendor_id, subsys_model_id) ==
    IF vendor_id \notin DOMAIN d.vendors THEN NoInfo
    ELSE LET vendor == d.vendors[vendor_id] IN
         IF model_id \notin DOMAIN vendor.devices
         THEN [NoInfo EXCEPT !.vendor_name = Some(vendor.name)]
         ELSE LET device == vendor.devices[model_id]
                  subdevice_id == [subvendor |-> subsys_vendor_id,
                                   subdevice |-> subsys_model_id]
              IN [vendor_name    |-> Some(vendor.name),
                  device_name    |-> Some(device.name),
                  subvendor_name |->
                      IF subsys_vendor_id \in DOMAIN d.vendors
                      THEN Some(d.vendors[subsys_vendor_id].name) ELSE None,
                  subdevice_name |-> Get(device.subdevices, subdevice_id)]

\* ------------------------------------------------------- streaming search
\* Each search runs its own Parser over the reader: `pos` is the next line,
\* `sec` the parser's section.  The result records how many lines were read.
Found(name, pos) == [kind |-> "Ok", val |-> Some(name), read |-> pos]
NotFound(pos)    == [kind |-> "Ok", val |-> None, read |-> pos]
SearchErr(pos)   == [kind |-> "Err", read |-> pos]

\* a search that reads past a line next_event fails on
RECURSIVE FindVendorLoop_SkipsBadLines(_, _, _, _)
FindVendorLoop_SkipsBadLines(s, pos, sec, vendor_id) ==
    IF pos > Len(s) THEN NotFound(Len(s))
    ELSE LET ev == next_event(sec, s[pos]) IN
         IF ev.kind = "Vendor" /\ ev.id = vendor_id THEN Found(ev.name, pos)
         ELSE FindVendorLoop_SkipsBadLines(s, pos + 1, ev.section, vendor_id)

\* lib.rs 300-308
RECURSIVE FindVendorLoop(_, _, _, _)
FindVendorLoop(s, pos, sec, vendor_id) ==
    IF pos > Len(s) THEN NotFound(Len(s))
    ELSE LET ev == next_event(sec, s[pos]) IN
         IF ev.kind = "Err" THEN SearchErr(pos)
         ELSE IF ev.kind = "Vendor" /\ ev.id = vendor_id THEN Found(ev.name, pos)
         ELSE FindVendorLoop(s, pos + 1, ev.section, vendor_id)

find_vendor_name_with_reader(s, vendor_id) ==
    FindVendorLoop(s, 1, "Devices", format_x(vendor_id))

\* an inner loop that reads on past the next vendor
RECURSIVE FindDeviceInner_ReadsOn(_, _, _, _)
FindDeviceInner_ReadsOn(s, pos, sec, device_id) ==
    IF pos > Len(s) THEN NotFound(Len(s))
    ELSE LET ev == next_event(sec, s[pos]) IN
         IF ev.kind = "Err" THEN SearchErr(pos)
         ELSE IF ev.kind = "Device" /\ ev.id = device_id THEN Found(ev.name, pos)
         ELSE FindDeviceInner_ReadsOn(s, pos + 1, ev.section, device_id)

\* lib.rs 339-349: the loop over the events after the matching vendor
RECURSIVE FindDeviceInner(_, _, _, _)
FindDeviceInner(s, pos, sec, device_id) ==
    IF pos > Len(s) THEN NotFound(Len(s))
    ELSE LET ev == next_event(sec, s[pos]) IN
         IF ev.kind = "Err" THEN SearchErr(pos)
         ELSE IF ev.kind = "Device" /\ ev.id = device_id THEN Found(ev.name, pos)
         ELSE IF ev.kind = "Vendor" THEN NotFound(pos)
         ELSE FindDeviceInner(s, pos + 1, ev.section, device_id)

\* lib.rs 336-356
RECURSIVE FindDeviceOuter(_, _, _, _, _)
FindDeviceOuter(s, pos, sec, vendor_id, device_id) ==
    IF pos > Len(s) THEN NotFound(Len(s))
    ELSE LET ev == next_event(sec, s[pos]) IN
         IF ev.kind = "Err" THEN SearchErr(pos)
         ELSE IF ev.kind = "Vendor" /\ ev.id = vendor_id
         THEN FindDeviceInner(s, pos + 1, ev.section, device_id)
         ELSE FindDeviceOuter(s, pos + 1, ev.section, vendor_id, device_id)

find_device_name_with_reader(s, vendor_id, device_id) ==
    FindDeviceOuter(s, 1, "Devices", format_x(vendor_id), format_x(device_id))

\* lib.rs 406-421: the loop over the events after the matching device
RECURSIVE FindSubdeviceInner(_, _, _, _, _)
FindSubdeviceInner(s, pos, sec, subvendor_id, subdevice_id) ==
    IF pos > Len(s) THEN NotFound(Len(s))
    ELSE LET ev == next_event(sec, s[pos]) IN
         IF ev.kind = "Err" THEN SearchErr(pos)
         ELSE IF ev.kind = "Skip"
         THEN FindSubdeviceInner(s, pos + 1, ev.section, subvendor_id, subdevice_id)
         ELSE IF ev.kind = "Subdevice"
         THEN IF ev.subvendor = subvendor_id /\ ev.subdevice = subdevice_id
              THEN Found(ev.subsystem_name, pos)
              ELSE FindSubdeviceInner(s, pos + 1, ev.section, subvendor_id, subdevice_id)
         ELSE NotFound(pos)

\* lib.rs 402-429: the loop over the events after the matching vendor
RECURSIVE FindSubdeviceMiddle(_, _, _, _, _, _)
FindSubdeviceMiddle(s, pos, sec, parent_device_id, subvendor_id, subdevice_id) ==
    IF pos > Len(s) THEN NotFound(Len(s))
    ELSE LET ev == next_event(sec, s[pos]) IN
         IF ev.kind = "Err" THEN SearchErr(pos)
         ELSE IF ev.kind = "Device" /\ ev.id = parent_device_id
         THEN FindSubdeviceInner(s, pos + 1, ev.section, subvendor_id, subdevice_id)
         ELSE IF ev.kind = "Vendor" THEN NotFound(pos)
         ELSE FindSubdeviceMiddle(s, pos + 1, ev.section, parent_device_id,
                                  subvendor_id, subdevice_id)

\* lib.rs 399-436
RECURSIVE FindSubdeviceOuter(_, _, _, _, _, _, _)
FindSubdeviceOuter(s, pos, sec, parent_vendor_id, parent_device_id, subvendor_id, subdevice_id) ==
    IF pos > Len(s) THEN NotFound(Len(s))
    ELSE LET ev == next_event(sec, s[pos]) IN
         IF ev.kind = "Err" THEN SearchErr(pos)
         ELSE IF ev.kind = "Vendor" /\ ev.id = parent_vendor_id
         THEN FindSubdeviceMiddle(s, pos + 1, ev.section, parent_device_id,
                                  subvendor_id, subdevice_id)
         ELSE FindSubdeviceOuter(s, pos + 1, ev.section, parent_vendor_id,
                                 parent_device_id, subvendor_id, subdevice_id)

find_subdevice_name_with_reader(s, parent_vendor_id, parent_device_id, subvendor_id, subdevice_id) ==
    FindSubdeviceOuter(s, 1, "Devices", format_x(parent_vendor_id),
                       format_x(parent_device_id), format_x(subvendor_id),
                       format_x(subdevice_id))

\* ================================================================ claims
\* The events of the lines of a stream, blank and comment lines left out.
RECURSIVE EventsFrom(_, _, _)
EventsFrom(s, pos, sec) ==
    IF pos > Len(s) THEN <<>>
    ELSE LET ev == next_event(sec, s[pos]) IN
         IF ev.kind = "Skip" THEN EventsFrom(s, pos + 1, ev.section)
         ELSE <<ev>> \o EventsFrom(s, pos + 1, ev.section)

Events == EventsFrom(stream, 1, "Devices")

CleanStream == \A i \in 1..Len(Events) : Events[i].kind # "Err"

Last(S) == CHOOSE i \in S : \A j \in S : j <= i
First(S) == CHOOSE i \in S : \A j \in S : i <= j

\* index of the most recent event of `kind` before event i, 0 if none
Preceding(E, i, kind) ==
    LET S == {j \in 1..(i - 1) : E[j].kind = kind} IN
    IF S = {} THEN 0 ELSE Last(S)

\* the events after Vendor event i and before the next Vendor event
Segment(E, i) ==
    {j \in (i + 1)..Len(E) : \A k \in (i + 1)..j : E[k].kind # "Vendor"}

\* the Subdevice events that directly follow event i
Run(E, i) ==
    {j \in (i + 1)..Len(E) : \A k \in (i + 1)..j : E[k].kind = "Subdevice"}

VendorEvents(E, v) == {i \in 1..Len(E) : E[i].kind = "Vendor" /\ E[i].num = v}
DeviceEvents(E, S, d) == {j \in S : E[j].kind = "Device" /\ E[j].num = d}
SubdeviceEvents(E, S, sv, sd) ==
    {k \in S : E[k].kind = "Subdevice" /\ E[k].subvendor_num = sv
                                       /\ E[k].subdevice_num = sd}

ExpectedVendorName(E, v) ==
    IF VendorEvents(E, v) = {} THEN None
    ELSE Some(E[First(VendorEvents(E, v))].name)

ExpectedDeviceName(E, v, d) ==
    IF VendorEvents(E, v) = {} THEN None
    ELSE LET S == DeviceEvents(E, Segment(E, First(VendorEvents(E, v))), d) IN
         IF S = {} THEN None ELSE Some(E[First(S)].name)

ExpectedSubdeviceName(E, v, d, sv, sd) ==
    IF VendorEvents(E, v) = {} THEN None
    ELSE LET S == DeviceEvents(E, Segment(E, First(VendorEvents(E, v))), d) IN
         IF S = {} THEN None
         ELSE LET R == SubdeviceEvents(E, Run(E, First(S)), sv, sd) IN
              IF R = {} THEN None ELSE Some(E[First(R)].subsystem_name)

HasDevice(d, v, m) == v \in DOMAIN d.vendors /\ m \in DOMAIN d.vendors[v].devices

\* C1: for every stream parse_db accepts and every (vendor, device) pair it
\* holds, the streaming searches return the names the Database returns.
C1_StreamingAgreesWithLookup ==
    Returned =>
        \A v \in QueryIds, m \in QueryIds :
            HasDevice(db, v, m) =>
                /\ find_device_name_with_reader(stream, v, m).kind = "Ok"
                /\ find_device_name_with_reader(stream, v, m).val
                       = get_device_info(db, v, m, v, m).device_name
                /\ find_vendor_name_with_reader(stream, v).kind = "Ok"
                /\ find_vendor_name_with_reader(stream, v).val
                       = get_device_info(db, v, m, v, m).vendor_name

\* C2: find_device_name_with_reader returns the name of the first Device
\* event with id d between the first Vendor event with id v and the next
\* Vendor event, and None in every other case.
C2_FindDeviceWithinVendorSegment ==
    CleanStream =>
        \A v \in QueryIds, m \in QueryIds :
            /\ find_device_name_with_reader(stream, v, m).kind = "Ok"
            /\ find_device_name_with_reader(stream, v, m).val
                   = ExpectedDeviceName(Events, v, m)

\* C3: find_vendor_name_with_reader returns the name of the first Vendor
\* event whose 16-bit id equals the id asked for, however the id is written
\* in the line, and None when there is no such line.
C3_FindVendorByNumericId ==
    CleanStream =>
        \A v \in QueryIds :
            /\ find_vendor_name_with_reader(stream, v).kind = "Ok"
            /\ find_vendor_name_with_reader(stream, v).val
                   = ExpectedVendorName(Events, v)

\* C4: find_subdevice_name_with_reader returns Some(name) exactly when a
\* Subdevice event with key (sv, sd) is in the run of Subdevice events right
\* after the first Device d event of the first Vendor v segment.
C4_FindSubdeviceInRun ==
    CleanStream =>
        \A v \in QueryIds, m \in QueryIds, sv \in QueryIds, sd \in QueryIds :
            /\ find_subdevice_name_with_reader(stream, v, m, sv, sd).kind = "Ok"
            /\ find_subdevice_name_with_reader(stream, v, m, sv, sd).val
                   = ExpectedSubdeviceName(Events, v, m, sv, sd)

KnownVendor(d, v) == v \in DOMAIN d.vendors
VendorNameOf(d, v) == IF KnownVendor(d, v) THEN Some(d.vendors[v].name) ELSE None

\* C5: get_device_info short-circuits top-down: an unknown vendor gives four
\* None fields, a known vendor with an unknown device gives vendor_name only.
C5_LookupShortCircuits ==
    Returned =>
        \A v \in QueryIds, m \in QueryIds, sv \in QueryIds, sd \in QueryIds :
            LET info == get_device_info(db, v, m, sv, sd) IN
            /\ ~KnownVendor(db, v) =>
                   /\ info.vendor_name = None
                   /\ info.device_name = None
                   /\ info.subvendor_name = None
                   /\ info.subdevice_name = None
            /\ (KnownVendor(db, v) /\ ~HasDevice(db, v, m)) =>
                   /\ info.vendor_name = Some(db.vendors[v].name)
                   /\ info.device_name = None
                   /\ info.subvendor_name = None
                   /\ info.subdevice_name = None

\* an unknown chip vendor asked with a known subsystem vendor, and a known
\* vendor asked with a device it does not have
C5_Witness ==
    /\ Returned
    /\ \E v \in QueryIds, sv \in QueryIds : ~KnownVendor(db, v) /\ KnownVendor(db, sv)
    /\ \E v \in QueryIds, m \in QueryIds, sv \in QueryIds :
           /\ KnownVendor(db, v) /\ ~HasDevice(db, v, m) /\ KnownVendor(db, sv)
           /\ get_device_info(db, v, m, sv, m).vendor_name.some

\* C6: with vendor and device found, subvendor_name is the name stored under
\* subsys_vendor_id in the top-level vendors map, whatever the chip vendor
\* and whether or not the device has that subdevice.
C6_SubvendorFromVendorsMap ==
    Returned =>
        \A v \in QueryIds, m \in QueryIds, sv \in QueryIds, sd \in QueryIds :
            HasDevice(db, v, m) =>
                get_device_info(db, v, m, sv, sd).subvendor_name = VendorNameOf(db, sv)

\* a device asked with another, known vendor as subsystem vendor and a
\* subsystem pair the device does not list
C6_Witness ==
    /\ Returned
    /\ \E v \in QueryIds, m \in QueryIds, sv \in QueryIds, sd \in QueryIds :
           /\ HasDevice(db, v, m)
           /\ sv # v
           /\ KnownVendor(db, sv)
           /\ [subvendor |-> sv, subdevice |-> sd] \notin DOMAIN db.vendors[v].devices[m].subdevices
           /\ get_device_info(db, v, m, sv, sd).subvendor_name.some

\* C7: with vendor and device found, subdevice_name is the entry of the
\* device's subdevice map under the pair (subsys_vendor_id, subsys_model_id);
\* without such an entry it is None and the other three fields stay as found.
C7_SubdeviceByCompositeKey ==
    Returned =>
        \A v \in QueryIds, m \in QueryIds, sv \in QueryIds, sd \in QueryIds :
            HasDevice(db, v, m) =>
                LET info == get_device_info(db, v, m, sv, sd)
                    subdevices == db.vendors[v].devices[m].subdevices
                    key == [subvendor |-> sv, subdevice |-> sd]
                IN /\ key \in DOMAIN subdevices => info.subdevice_name = Some(subdevices[key])
                   /\ key \notin DOMAIN subdevices =>
                          /\ info.subdevice_name = None
                          /\ info.vendor_name = Some(db.vendors[v].name)
                          /\ info.device_name = Some(db.vendors[v].devices[m].name)
                          /\ info.subvendor_name = VendorNameOf(db, sv)

\* a device that lists (sv, x) is asked for (sv, sd) with sd # x, sv known
C7_Witness ==
    /\ Returned
    /\ \E v \in QueryIds, m \in QueryIds, sv \in QueryIds, sd \in QueryIds :
           /\ HasDevice(db, v, m)
           /\ KnownVendor(db, sv)
           /\ [subvendor |-> sv, subdevice |-> sd] \notin DOMAIN db.vendors[v].devices[m].subdevices
           /\ \E k \in DOMAIN db.vendors[v].devices[m].subdevices : k.subvendor = sv
           /\ ~get_device_info(db, v, m, sv, sd).subdevice_name.some
           /\ get_device_info(db, v, m, sv, sd).subvendor_name.some

\* C8: every device of the returned Database is stored under the vendor of
\* the most recent Vendor line before its Device line, and every subdevice
\* under the device of the most recent Device line before its line.
C8_DeviceUnderItsVendor ==
    Returned =>
        LET E == Events IN
        \A vk \in DOMAIN db.vendors :
            \A dk \in DOMAIN db.vendors[vk].devices :
                LET rec == db.vendors[vk].devices[dk] IN
                \E i \in 1..Len(E) :
                    /\ E[i].kind = "Device"
                    /\ E[i].num = dk
                    /\ E[i].name = rec.name
                    /\ Preceding(E, i, "Vendor") # 0
                    /\ E[Preceding(E, i, "Vendor")].num = vk
                    /\ \A key \in DOMAIN rec.subdevices :
                           \E k \in 1..Len(E) :
                               /\ E[k].kind = "Subdevice"
                               /\ E[k].subvendor_num = key.subvendor
                               /\ E[k].subdevice_num = key.subdevice
                               /\ E[k].subsystem_name = rec.subdevices[key]
                               /\ Preceding(E, k, "Device") = i

\* two vendors, the first with a device that has a subdevice
C8_Witness ==
    /\ Returned
    /\ Cardinality(DOMAIN db.vendors) = 2
    /\ \E vk \in DOMAIN db.vendors :
           \E dk \in DOMAIN db.vendors[vk].devices :
               /\ db.vendors[vk].devices[dk].subdevices # EmptyMap
               /\ Events[Len(Events)].kind = "Vendor"

\* C9: every subclass of the returned Database is stored under the class of
\* the most recent Class line before it, every prog-if under the subclass of
\* the most recent SubClass line before it in the same class, and every
\* class id with a Class line is a key of classes.
C9_ClassTaxonomyNests ==
    Returned =>
        LET E == Events IN
        /\ \A i \in 1..Len(E) : E[i].kind = "Class" => E[i].num \in DOMAIN db.classes
        /\ \A ck \in DOMAIN db.classes :
               \A sk \in DOMAIN db.classes[ck].subclasses :
                   LET rec == db.classes[ck].subclasses[sk] IN
                   \E i \in 1..Len(E) :
                       /\ E[i].kind = "SubClass"
                       /\ E[i].num = sk
                       /\ E[i].name = rec.name
                       /\ Preceding(E, i, "Class") # 0
                       /\ E[Preceding(E, i, "Class")].num = ck
                       /\ \A pk \in DOMAIN rec.prog_ifs :
                              \E k \in 1..Len(E) :
                                  /\ E[k].kind = "ProgIf"
                                  /\ E[k].num = pk
                                  /\ E[k].name = rec.prog_ifs[pk]
                                  /\ Preceding(E, k, "SubClass") = i
                                  /\ Preceding(E, k, "Class") = Preceding(E, i, "Class")

\* two classes, the first with a subclass that has a prog-if
C9_Witness ==
    /\ Returned
    /\ Cardinality(DOMAIN db.classes) = 2
    /\ \E ck \in DOMAIN db.classes :
           \E sk \in DOMAIN db.classes[ck].subclasses :
               /\ db.classes[ck].subclasses[sk].prog_ifs # EmptyMap
               /\ Events[Len(Events)].kind = "Class"

\* The sections of a stream by the shape of its lines: the class section
\* starts at the first line that begins with the marker "C ".
ClassMarked(raw) == Len(raw) >= 2 /\ raw[1] = "C" /\ raw[2] = SP
InClassSection(s, i) == \E j \in 1..i : ClassMarked(s[j])
VendorShaped(raw) == Len(raw) > 1 /\ raw[1] \notin {TAB, "#"} /\ ~ClassMarked(raw)
VendorLineIds(s) ==
    {FromRadix16(SubSeq(s[i], 1, 4)).id :
        i \in {j \in 1..Len(s) : VendorShaped(s[j]) /\ ~InClassSection(s, j)}}

ReadsLine == Len(stream') = Len(stream) + 1

\* C10: the keys of vendors of the returned Database are the ids of the
\* Vendor lines of the device section; reading a line of the class section
\* changes nothing of the vendor hierarchy, and reading a line of the device
\* section changes nothing of the class hierarchy.
C10_SectionsDoNotLeak ==
    /\ [](Returned => DOMAIN db.vendors = VendorLineIds(stream))
    /\ [][(ReadsLine /\ InClassSection(stream', Len(stream')))
            => UNCHANGED <<vendors, current_vendor, current_device>>]_vars
    /\ [][(ReadsLine /\ ~InClassSection(stream', Len(stream')))
            => UNCHANGED <<classes, current_class, current_subclass>>]_vars

\* a stream with a vendor, a device, a class and a subclass was accepted
C10_Witness ==
    /\ Returned
    /\ \E vk \in DOMAIN db.vendors : db.vendors[vk].devices # EmptyMap
    /\ \E ck \in DOMAIN db.classes : db.classes[ck].subclasses # EmptyMap

\* =========================================================== Parser alone
\* Calls of Parser::next_event on their own, as in the tests of parser.rs:
\* a parser is built over a reader, its section may be set by the caller
\* (parser.rs 234), and next_event is called.  `stream` holds the lines the
\* reader has delivered, `result` the value of the last call that returned.
MaxParserLines == 1

Tok00AB == <<"0", "0", "A", "B">>
Tok1z00 == <<"1", "z", "0", "0">>
Tokz100 == <<"z", "1", "0", "0">>
Tok0z   == <<"0", "z">>
Tokz0   == <<"z", "0">>
Tok1a0  == <<"1", "a", "0">>
NameLong == <<"A", SP, SP, "B", SP>>

\* whole lines of every shape: well-formed ones, ones with a malformed id,
\* ones with another first byte, one with a single space for the delimiter,
\* ones with the delimiter after three digits
ParserFullLines ==
    {VendorLine(t, NameLong) : t \in {Tok1a00, Tok00AB, Tok1z00, Tokz100}}
    \cup {DeviceLine(t, NameA) : t \in {Tok1a00, Tok1z00}}
    \cup {SubdeviceLine(Tok1a00, Tok0010, NameLong), SubdeviceLine(Tok1a00, Tok1z00, NameA),
          SubdeviceLine(Tokz100, Tok0010, NameA)}
    \cup {ClassLine(t, NameA) : t \in {Tok0a, Tok0z, Tokz0}}
    \cup {SubClassLine(t, NameA) : t \in {Tok0a, Tok0z}}
    \cup {ProgIfLine(t, NameA) : t \in {Tok0a, Tokz0}}
    \cup {<<c, SP>> \o Tok0a \o <<SP, SP>> \o NameA \o <<NL>> : c \in {"c", "X", TAB}}
    \cup {Tok1a00 \o <<SP>> \o NameA \o <<NL>>}
    \cup {VendorLine(Tok1a0, NameA), SubClassLine(Tok1a0, NameA)}
    \cup {<<"#", "x", NL>>}

\* every non-empty piece a reader can cut off the front of such a line
ParserBodies == UNION {{SubSeq(l, 1, n) : n \in 1..(Len(l) - 1)} : l \in ParserFullLines}

\* what read_until(b'\n') can return: a terminated line, or the unterminated
\* rest of the input
ParserLines ==
    {b \o <<NL>> : b \in ParserBodies} \cup ParserBodies \cup {<<NL>>}

Terminated(raw) == Len(raw) > 0 /\ raw[Len(raw)] = NL

\* the reader has more to give: nothing follows an unterminated line
ReaderOpen ==
    /\ Len(stream) < MaxParserLines
    /\ \A i \in 1..Len(stream) : Terminated(stream[i])
    /\ ~(result.some /\ result.val.kind = "End")

InitParser ==
    /\ stream = <<>>
    /\ section \in {"Devices", "Classes"}
    /\ current_vendor = None
    /\ current_device = None
    /\ current_class = None
    /\ current_subclass = None
    /\ vendors = EmptyMap
    /\ classes = EmptyMap
    /\ result = None

\* parser.rs 77-141: a line is read and the call returns an event or an error
NextEvent ==
    /\ ReaderOpen
    /\ \E raw \in ParserLines :
        LET ev == next_event(section, raw) IN
        /\ ev.kind # "Skip"
        /\ stream' = Append(stream, raw)
        /\ section' = ev.section
        /\ result' = Some(ev)
        /\ KeepLocals

\* parser.rs 78-81: a blank or comment line is dropped and the loop reads on
NextEventSkips ==
    /\ ReaderOpen
    /\ \E raw \in ParserLines :
        /\ next_event(section, raw).kind = "Skip"
        /\ stream' = Append(stream, raw)
        /\ UNCHANGED <<section, result>>
        /\ KeepLocals

\* parser.rs 77, 144: read_until returns 0 and the call returns Ok(None)
NextEventEnd ==
    /\ ~(result.some /\ result.val.kind = "End")
    /\ result' = Some([kind |-> "End", section |-> section])
    /\ UNCHANGED <<stream, section>>
    /\ KeepLocals

NextParser ==
    \/ NextEvent
    \/ NextEventSkips
    \/ NextEventEnd

SpecParser == InitParser /\ [][NextParser]_vars

\* the call that has just returned read the last line of `stream`
JustRead == Len(stream') = Len(stream) + 1
LastLine == stream[Len(stream)]
LastLineNext == stream'[Len(stream')]
Body(raw) == SubSeq(raw, 1, Len(raw) - 1)

\* --------------------------------------------- the scalar line classifier
\* Classification by leading-tab depth and the first two-space delimiter.
RECURSIVE HexValue(_)
HexValue(tok) ==
    IF tok = <<>> THEN 0
    ELSE HexValue(SubSeq(tok, 1, Len(tok) - 1)) * 16 + HexDigitVal(tok[Len(tok)])

AllHex(tok, width) == Len(tok) = width /\ \A i \in 1..Len(tok) : IsHexDigit(tok[i])

LeadingTabs(buf) ==
    IF Len(buf) >= 2 /\ buf[1] = TAB /\ buf[2] = TAB THEN 2
    ELSE IF Len(buf) >= 1 /\ buf[1] = TAB THEN 1
    ELSE 0

\* index of the first of two consecutive spaces, 0 when there are none
FirstDelimiter(p) ==
    IF \E i \in 1..(Len(p) - 1) : p[i] = SP /\ p[i + 1] = SP
    THEN CHOOSE i \in 1..(Len(p) - 1) :
            /\ p[i] = SP /\ p[i + 1] = SP
            /\ \A j \in 1..(i - 1) : ~(p[j] = SP /\ p[j + 1] = SP)
    ELSE 0

HasMarker(buf) == Len(buf) >= 2 /\ buf[1] \in {"C", "c"} /\ buf[2] = SP

Invalid == [valid |-> FALSE]
Valid(ev) == [valid |-> TRUE, ev |-> ev]

ScalarOne(kind, tok, width, name, sec) ==
    IF AllHex(tok, width)
    THEN Valid([kind |-> kind, id |-> tok, num |-> HexValue(tok), name |-> name,
                section |-> sec])
    ELSE Invalid

ScalarClassify(sec, buf) ==
    LET depth   == LeadingTabs(buf)
        payload == SubSeq(buf, depth + 1, Len(buf))
        d       == FirstDelimiter(payload)
        idpart  == SubSeq(payload, 1, d - 1)
        name    == SubSeq(payload, d + 2, Len(payload))
    IN IF d = 0 THEN Invalid
       ELSE IF HasMarker(buf)
       THEN ScalarOne("Class", SubSeq(idpart, 3, Len(idpart)), 2, name, "Classes")
       ELSE IF sec = "Devices"
       THEN IF depth = 0 THEN ScalarOne("Vendor", idpart, 4, name, "Devices")
            ELSE IF depth = 1 THEN ScalarOne("Device", idpart, 4, name, "Devices")
            ELSE IF /\ Len(idpart) = 9
                    /\ idpart[5] = SP
                    /\ AllHex(SubSeq(idpart, 1, 4), 4)
                    /\ AllHex(SubSeq(idpart, 6, 9), 4)
                 THEN Valid([kind |-> "Subdevice",
                             subvendor |-> SubSeq(idpart, 1, 4),
                             subdevice |-> SubSeq(idpart, 6, 9),
                             subvendor_num |-> HexValue(SubSeq(idpart, 1, 4)),
                             subdevice_num |-> HexValue(SubSeq(idpart, 6, 9)),
                             subsystem_name |-> name, section |-> "Devices"])
                 ELSE Invalid
       ELSE IF depth = 1 THEN ScalarOne("SubClass", idpart, 2, name, "Classes")
            ELSE IF depth = 2 THEN ScalarOne("ProgIf", idpart, 2, name, "Classes")
            ELSE Invalid

\* C11: for every terminated line that the scalar classification accepts in
\* the current section, the call of next_event that reads it returns the
\* event the scalar classification gives: same kind, same id token(s) with
\* their hex value, same name, same section afterwards.
C11_MaskAgreesWithScalar ==
    [][(JustRead /\ Terminated(LastLineNext)
            /\ ScalarClassify(section, Body(LastLineNext)).valid)
        => /\ result'.some
           /\ result'.val = ScalarClassify(section, Body(LastLineNext)).ev
           /\ section' = result'.val.section]_vars

\* a subdevice line longer than the 16-byte window has been classified
C11_Witness ==
    /\ Len(stream) > 0
    /\ Terminated(LastLine)
    /\ Len(LastLine) > 17
    /\ result.some
    /\ result.val.kind = "Subdevice"
    /\ ScalarClassify("Devices", Body(LastLine)).valid
    /\ result.val.subsystem_name = NameLong


\* ------------------------------------------------ the Database of a stream
\* the events after Class event i and before the next Class event
ClassSegment(E, i) ==
    {j \in (i + 1)..Len(E) : \A k \in (i + 1)..j : E[k].kind # "Class"}

\* the ProgIf events that directly follow event i
ProgIfRun(E, i) ==
    {j \in (i + 1)..Len(E) : \A k \in (i + 1)..j : E[k].kind = "ProgIf"}

Indices(E, S, kind) == {j \in S : E[j].kind = kind}
LastWith(E, S, kind, id) == Last({j \in Indices(E, S, kind) : E[j].num = id})

SubdeviceKey(ev) == [subvendor |-> ev.subvendor_num, subdevice |-> ev.subdevice_num]

\* the record under each key is built from the last line with that key
\* under the same parent, with the children that follow that line
LastSubdevices(E, j) ==
    [key \in {SubdeviceKey(E[k]) : k \in Run(E, j)} |->
        E[Last({k \in Run(E, j) : SubdeviceKey(E[k]) = key})].subsystem_name]

LastDevices(E, i) ==
    [d \in {E[j].num : j \in Indices(E, Segment(E, i), "Device")} |->
        LET j == LastWith(E, Segment(E, i), "Device", d) IN
        [name |-> E[j].name, subdevices |-> LastSubdevices(E, j)]]

LastVendors(E) ==
    [v \in {E[i].num : i \in Indices(E, 1..Len(E), "Vendor")} |->
        LET i == LastWith(E, 1..Len(E), "Vendor", v) IN
        [name |-> E[i].name, devices |-> LastDevices(E, i)]]

LastProgIfs(E, j) ==
    [p \in {E[k].num : k \in ProgIfRun(E, j)} |->
        E[LastWith(E, ProgIfRun(E, j), "ProgIf", p)].name]

LastSubClasses(E, i) ==
    [sc \in {E[j].num : j \in Indices(E, ClassSegment(E, i), "SubClass")} |->
        LET j == LastWith(E, ClassSegment(E, i), "SubClass", sc) IN
        [name |-> E[j].name, prog_ifs |-> LastProgIfs(E, j)]]

LastClasses(E) ==
    [c \in {E[i].num : i \in Indices(E, 1..Len(E), "Class")} |->
        LET i == LastWith(E, 1..Len(E), "Class", c) IN
        [name |-> E[i].name, subclasses |-> LastSubClasses(E, i)]]

MaxInputLines == 3

InputLines ==
    {VendorLine(Tok1a00, NameA), VendorLine(Tok0010, NameA),
     DeviceLine(Tok1a00, NameA), SubdeviceLine(Tok1a00, Tok1a00, NameA),
     ClassLine(Tok0a, NameA), SubClassLine(Tok0a, NameB), CommentLine, BlankLine,
     Tok1a00 \o <<SP>> \o NameA \o <<NL>>}

Inputs == UNION {[1..n -> InputLines] : n \in 0..MaxInputLines}

\* lib.rs 79-86
InitLocals ==
    [current_vendor |-> None, current_device |-> None,
     current_class |-> None, current_subclass |-> None,
     vendors |-> EmptyMap, classes |-> EmptyMap]

DbErr(pos) == [kind |-> "Err", err |-> "Parse", read |-> pos]
DbOk(l, pos) == [kind |-> "Ok", vendors |-> l.vendors, classes |-> l.classes, read |-> pos]

\* a loop that drops a line next_event fails on and reads on
RECURSIVE ParseDbLoop_SkipsBadLines(_, _, _, _)
ParseDbLoop_SkipsBadLines(s, pos, sec, l) ==
    IF pos > Len(s)
    THEN LET a == FinalFlush(l) IN
         IF a.err THEN DbErr(Len(s)) ELSE DbOk(a.l, Len(s))
    ELSE LET ev == next_event(sec, s[pos]) IN
         IF ev.kind \in {"Skip", "Err"}
         THEN ParseDbLoop_SkipsBadLines(s, pos + 1, ev.section, l)
         ELSE LET a == Arm(l, ev) IN
              IF a.err THEN DbErr(pos)
              ELSE ParseDbLoop_SkipsBadLines(s, pos + 1, ev.section, a.l)

\* lib.rs 88-222: the loop of parse_db and the final flush, as a function of
\* the content of the reader
RECURSIVE ParseDbLoop(_, _, _, _)
ParseDbLoop(s, pos, sec, l) ==
    IF pos > Len(s)
    THEN LET a == FinalFlush(l) IN
         IF a.err THEN DbErr(Len(s)) ELSE DbOk(a.l, Len(s))
    ELSE LET ev == next_event(sec, s[pos]) IN
         IF ev.kind = "Skip" THEN ParseDbLoop(s, pos + 1, ev.section, l)
         ELSE IF ev.kind = "Err" THEN DbErr(pos)
         ELSE LET a == Arm(l, ev) IN
              IF a.err THEN DbErr(pos)
              ELSE ParseDbLoop(s, pos + 1, ev.section, a.l)

parse_db(s) == ParseDbLoop(s, 1, "Devices", InitLocals)

Call(fn, args) == [fn |-> fn, args |-> args]

Apply(call, s) ==
    CASE call.fn = "parse_db" -> parse_db(s)
      [] call.fn = "find_vendor_name" ->
             find_vendor_name_with_reader(s, call.args[1])
      [] call.fn = "find_device_name" ->
             find_device_name_with_reader(s, call.args[1], call.args[2])
      [] call.fn = "find_subdevice_name" ->
             find_subdevice_name_with_reader(s, call.args[1], call.args[2],
                                             call.args[3], call.args[4])

InitCalls ==
    /\ stream \in Inputs
    /\ section = "Devices"
    /\ current_vendor = None
    /\ current_device = None
    /\ current_class = None
    /\ current_subclass = None
    /\ vendors = EmptyMap
    /\ classes = EmptyMap
    /\ result = None

\* lib.rs 75-223
CallParseDb ==
    /\ result = None
    /\ result' = Some([call |-> Call("parse_db", <<>>), out |-> parse_db(stream)])
    /\ UNCHANGED <<stream, section>>
    /\ KeepLocals

\* lib.rs 292-309
CallFindVendorName ==
    /\ result = None
    /\ \E v \in QueryIds :
           result' = Some([call |-> Call("find_vendor_name", <<v>>),
                           out |-> find_vendor_name_with_reader(stream, v)])
    /\ UNCHANGED <<stream, section>>
    /\ KeepLocals

\* lib.rs 326-357
CallFindDeviceName ==
    /\ result = None
    /\ \E v \in QueryIds, m \in QueryIds :
           result' = Some([call |-> Call("find_device_name", <<v, m>>),
                           out |-> find_device_name_with_reader(stream, v, m)])
    /\ UNCHANGED <<stream, section>>
    /\ KeepLocals

\* lib.rs 385-437
CallFindSubdeviceName ==
    /\ result = None
    /\ \E v \in QueryIds, m \in QueryIds, sv \in QueryIds, sd \in QueryIds :
           result' = Some([call |-> Call("find_subdevice_name", <<v, m, sv, sd>>),
                           out |-> find_subdevice_name_with_reader(stream, v, m, sv, sd)])
    /\ UNCHANGED <<stream, section>>
    /\ KeepLocals

NextCalls ==
    \/ CallParseDb
    \/ CallFindVendorName
    \/ CallFindDeviceName
    \/ CallFindSubdeviceName

SpecCalls == InitCalls /\ [][NextCalls]_vars

\* index of the first line of s that next_event fails on, 0 if there is none
RECURSIVE FirstErrFrom(_, _, _)
FirstErrFrom(s, pos, sec) ==
    IF pos > Len(s) THEN 0
    ELSE LET ev == next_event(sec, s[pos]) IN
         IF ev.kind = "Err" THEN pos ELSE FirstErrFrom(s, pos + 1, ev.section)

FirstErrLine(s) == FirstErrFrom(s, 1, "Devices")

Called(fn) == result.some /\ result.val.call.fn = fn
IsSearch == result.some /\ result.val.call.fn # "parse_db"

\* C13: any error aborts the call at once.  A call that returns Err carries
\* no Database and no name; it has read up to a line k and its outcome is the
\* outcome of the same call on the first k lines alone, so no line after k
\* is read; for a search k is the first line next_event fails on, for
\* parse_db k is no later than that line.  And parse_db never returns a
\* Database for a content with a line next_event fails on.
C13_ErrorsAbort ==
    result.some =>
        LET r == result.val.out
            e == FirstErrLine(stream)
        IN /\ r.kind = "Err" =>
                  /\ DOMAIN r \cap {"vendors", "classes", "val"} = {}
                  /\ r.read \in 1..Len(stream)
                  /\ Apply(result.val.call, SubSeq(stream, 1, r.read)) = r
                  /\ IsSearch => r.read = e
                  /\ Called("parse_db") => (e = 0 \/ r.read <= e)
           /\ (Called("parse_db") /\ e > 0) => r.kind = "Err"

\* parse_db has failed on a line after a vendor line it had folded, with
\* lines left unread
C13_Witness ==
    /\ Called("parse_db")
    /\ result.val.out.kind = "Err"
    /\ result.val.out.read > 1
    /\ result.val.out.read < Len(stream)
    /\ next_event("Devices", stream[1]).kind = "Vendor"
    /\ FirstErrLine(stream) = result.val.out.read

\* C14: a search returns Err exactly when it has read as far as the first
\* line that fails classification: with no such line it returns Ok whatever
\* the order of the events, with one it returns Ok only when the scan
\* stopped before that line; a search that reads to the end of the stream
\* without a match returns Ok(None).
C14_SearchFailsOnlyOnMalformedLine ==
    IsSearch =>
        LET r == result.val.out
            e == FirstErrLine(stream)
        IN /\ e = 0 => r.kind = "Ok"
           /\ r.kind = "Err" => e > 0 /\ r.read = e
           /\ (r.kind = "Ok" /\ e > 0) => r.read < e

\* a search over well-formed lines in an order parse_db rejects has come to
\* the end of the stream and returned Ok(None)
C14_Witness ==
    /\ Called("find_subdevice_name")
    /\ Len(stream) > 0
    /\ FirstErrLine(stream) = 0
    /\ parse_db(stream).kind = "Err"
    /\ result.val.out = NotFound(Len(stream))


\* ------------------------------------------------------- section and flush
DeviceKinds == {"Vendor", "Device", "Subdevice"}
ClassKinds == {"Class", "SubClass", "ProgIf"}

\* what the line would be in the device section
DeviceShaped(raw) == next_event("Devices", raw).kind \in DeviceKinds

\* C16: the section is monotone.  The parser starts in the device section
\* and enters the class section with the first Class event, and only then;
\* once it is in the class section it stays there, and every line read then
\* gives a Class, SubClass or ProgIf event or an error (or is skipped), never
\* a Vendor, Device or Subdevice; a line that is vendor-, device- or
\* subdevice-shaped makes the call fail.  Hence in the events of every
\* stream all device-hierarchy events precede all class-hierarchy events.
C16_SectionMonotone ==
    /\ [](Len(stream) = 0 => section = "Devices")
    /\ [][section = "Classes" => section' = "Classes"]_vars
    /\ [][section' # section =>
            JustRead /\ next_event(section, LastLineNext).kind = "Class"]_vars
    /\ [][JustRead =>
            LET ev == next_event(section, LastLineNext) IN
            /\ ev.kind = "Class" => section' = "Classes"
            /\ section = "Classes" =>
                   /\ ev.kind \in ClassKinds \cup {"Err", "Skip"}
                   /\ DeviceShaped(LastLineNext) =>
                          result' = Some([kind |-> "Err", err |-> "Parse"])]_vars
    /\ [](result.some =>
            LET E == Events IN
            \A j \in 1..Len(E) :
                E[j].kind \in DeviceKinds =>
                    \A i \in 1..(j - 1) : E[i].kind \notin ClassKinds)

\* after vendor and class lines a vendor-shaped line has been read in the
\* class section and the call has failed
C16_Witness ==
    /\ Len(stream) > 2
    /\ section = "Classes"
    /\ result = Some([kind |-> "Err", err |-> "Parse"])
    /\ next_event("Devices", stream[1]).kind = "Vendor"
    /\ next_event("Devices", LastLine).kind = "Vendor"

LastOf(E, kind) == Last(Indices(E, 1..Len(E), kind))
Has(E, S, kind) == Indices(E, S, kind) # {}

\* C20: when parse_db returns Ok no slot is left open, and what was open at
\* the end of input is in the result: the last vendor with its name, holding
\* its last device with that device's subdevices, and the last class holding
\* its last subclass with its prog-ifs.  The flush does not fail when the
\* open device has an open vendor to go into (device first, then vendor).
C20_EndOfStreamFlush ==
    /\ [](Returned =>
            LET E == Events IN
            /\ current_vendor = None /\ current_device = None
            /\ current_class = None /\ current_subclass = None
            /\ Has(E, 1..Len(E), "Vendor") =>
                   LET i == LastOf(E, "Vendor") IN
                   /\ E[i].num \in DOMAIN db.vendors
                   /\ db.vendors[E[i].num].name = E[i].name
                   /\ Has(E, Segment(E, i), "Device") =>
                          LET j == Last(Indices(E, Segment(E, i), "Device")) IN
                          /\ E[j].num \in DOMAIN db.vendors[E[i].num].devices
                          /\ db.vendors[E[i].num].devices[E[j].num]
                                 = [name |-> E[j].name, subdevices |-> LastSubdevices(E, j)]
            /\ Has(E, 1..Len(E), "Class") =>
                   LET i == LastOf(E, "Class") IN
                   /\ E[i].num \in DOMAIN db.classes
                   /\ db.classes[E[i].num].name = E[i].name
                   /\ Has(E, ClassSegment(E, i), "SubClass") =>
                          LET j == Last(Indices(E, ClassSegment(E, i), "SubClass")) IN
                          /\ E[j].num \in DOMAIN db.classes[E[i].num].subclasses
                          /\ db.classes[E[i].num].subclasses[E[j].num]
                                 = [name |-> E[j].name, prog_ifs |-> LastProgIfs(E, j)])
    /\ [][(~result.some /\ result'.some /\ stream' = stream
              /\ (current_device.some => current_vendor.some))
          => result'.val.kind = "Ok"]_vars

\* parse_db has returned Ok for a stream that ends in the class section with
\* a vendor, its device and a subdevice of it still open before the flush
C20_Witness ==
    /\ Returned
    /\ Len(stream) = 4
    /\ classes # EmptyMap
    /\ \E v \in DOMAIN db.vendors : \E d \in DOMAIN db.vendors[v].devices :
           db.vendors[v].devices[d].subdevices # EmptyMap


\* ------------------------------------------------- lines as the claims see them
EventKinds == DeviceKinds \cup ClassKinds

\* the first two bytes are the class-section marker
StartsWithMarker(raw) == Len(raw) >= 2 /\ raw[1] \in {"C", "c"} /\ raw[2] = SP

IsHexToken(tok) == \A i \in 1..Len(tok) : IsHexDigit(tok[i])
IdTokens(ev) == IF ev.kind = "Subdevice" THEN {ev.subvendor, ev.subdevice} ELSE {ev.id}
NameOf(ev) == IF ev.kind = "Subdevice" THEN ev.subsystem_name ELSE ev.name

\* the line without its terminator, if it has one
Content(raw) == IF Terminated(raw) THEN Body(raw) ELSE raw

\* the bytes after the first two-space delimiter
NameField(p) ==
    LET D == {i \in 1..(Len(p) - 1) : p[i] = SP /\ p[i + 1] = SP} IN
    IF D = {} THEN <<>> ELSE SubSeq(p, First(D) + 2, Len(p))

\* C17: only a line whose first two bytes are "C " (or "c ") changes the
\* section or is classified as Class: a call that reads a line with any
\* other first bytes leaves the section as it is and returns no Class event.
C17_OnlyMarkerFlipsSection ==
    [][JustRead =>
        ((next_event(section, LastLineNext).kind = "Class" \/ section' # section)
            => StartsWithMarker(LastLineNext))]_vars

\* C18: id tokens are strictly validated: every event next_event returns has
\* id tokens made of hex digits only (4 for vendor, device, subvendor,
\* subdevice, 2 for class, subclass, prog-if); a token with a non-hex byte
\* gives a parse error, never the value of its hex prefix.
C18_IdTokensStrictlyValidated ==
    (result.some /\ result.val.kind \in EventKinds) =>
        \A tok \in IdTokens(result.val) :
            /\ IsHexToken(tok)
            /\ Len(tok) = IF result.val.kind \in DeviceKinds THEN 4 ELSE 2

\* C19: the name of every event is the bytes after the two-space delimiter
\* up to, and excluding, the line terminator, verbatim - for every record
\* line, also a last line without a terminator.
C19_NameVerbatim ==
    [][JustRead =>
        LET ev == next_event(section, LastLineNext) IN
        ev.kind \in EventKinds => NameOf(ev) = NameField(Content(LastLineNext))]_vars

\* ------------------------------------------------------- exactly-once commit
\* the open vendor as it is committed: with its open device, if any, in it
ClosedVendor ==
    IF current_device.some
    THEN [current_vendor.val.rec EXCEPT
              !.devices = Insert(@, current_device.val.id, current_device.val.rec)]
    ELSE current_vendor.val.rec

\* the open class as it is committed: with its open subclass, if any, in it
ClosedClass ==
    IF current_subclass.some
    THEN [current_class.val.rec EXCEPT
              !.subclasses = Insert(@, current_subclass.val.id, current_subclass.val.rec)]
    ELSE current_class.val.rec

\* a slot is empty or holds a record without children
Fresh(slot, children) == slot.some => slot.val.rec[children] = EmptyMap

\* the map `new` is `old` with at most one entry added or replaced
Extends(old, new) ==
    /\ DOMAIN old \subseteq DOMAIN new
    /\ Cardinality(DOMAIN new) <= Cardinality(DOMAIN old) + 1
    /\ Cardinality({k \in DOMAIN old : new[k] # old[k]}) + Cardinality(DOMAIN new)
           <= Cardinality(DOMAIN old) + 1

\* C21: exactly-once commit. In every step of parse_db: the committed maps
\* change only by the insertion of the open vendor (class), complete with its
\* open device (subclass), after which no device (subclass) is open; an open
\* vendor (class) changes only by being committed or by receiving its own open
\* device (subclass); an open device (subclass) changes only by receiving a
\* leaf or by being committed into the vendor (class) open at that moment,
\* which is the one that was open when it was opened; a newly opened record
\* starts without children, so no committed record is reopened. When parse_db
\* returns Ok no record is open any more.
C21_ExactlyOnceCommit ==
    /\ [][vendors' # vendors =>
             /\ current_vendor.some
             /\ vendors' = Insert(vendors, current_vendor.val.id, ClosedVendor)
             /\ current_device' = None
             /\ current_vendor' # None => current_vendor'.val.rec.devices = EmptyMap]_vars
    /\ [][classes' # classes =>
             /\ current_class.some
             /\ classes' = Insert(classes, current_class.val.id, ClosedClass)
             /\ current_subclass' = None
             /\ current_class' # None => current_class'.val.rec.subclasses = EmptyMap]_vars
    /\ [][current_vendor' # current_vendor =>
             /\ Fresh(current_device', "subdevices")
             /\ IF ~current_vendor.some
                THEN /\ Fresh(current_vendor', "devices")
                     /\ ~current_device.some
                     /\ vendors' = vendors
                ELSE \/ /\ vendors' = Insert(vendors, current_vendor.val.id, ClosedVendor)
                        /\ Fresh(current_vendor', "devices")
                        /\ current_device' = None
                     \/ /\ current_device.some
                        /\ current_vendor' = Some([id |-> current_vendor.val.id,
                                                   rec |-> ClosedVendor])
                        /\ vendors' = vendors]_vars
    /\ [][current_class' # current_class =>
             /\ Fresh(current_subclass', "prog_ifs")
             /\ IF ~current_class.some
                THEN /\ Fresh(current_class', "subclasses")
                     /\ ~current_subclass.some
                     /\ classes' = classes
                ELSE \/ /\ classes' = Insert(classes, current_class.val.id, ClosedClass)
                        /\ Fresh(current_class', "subclasses")
                        /\ current_subclass' = None
                     \/ /\ current_subclass.some
                        /\ current_class' = Some([id |-> current_class.val.id,
                                                  rec |-> ClosedClass])
                        /\ classes' = classes]_vars
    /\ [][current_device' # current_device =>
             IF ~current_device.some
             THEN /\ Fresh(current_device', "subdevices")
                  /\ current_vendor' = current_vendor
                  /\ vendors' = vendors
             ELSE \/ /\ current_device'.some
                     /\ current_device'.val.id = current_device.val.id
                     /\ current_device'.val.rec.name = current_device.val.rec.name
                     /\ Extends(current_device.val.rec.subdevices,
                                current_device'.val.rec.subdevices)
                     /\ current_vendor' = current_vendor
                     /\ vendors' = vendors
                  \/ /\ current_vendor.some
                     /\ Fresh(current_device', "subdevices")
                     /\ \/ current_vendor' = Some([id |-> current_vendor.val.id,
                                                   rec |-> ClosedVendor])
                        \/ /\ vendors' = Insert(vendors, current_vendor.val.id, ClosedVendor)
                           /\ current_device' = None]_vars
    /\ [][current_subclass' # current_subclass =>
             IF ~current_subclass.some
             THEN /\ Fresh(current_subclass', "prog_ifs")
                  /\ current_class' = current_class
                  /\ classes' = classes
             ELSE \/ /\ current_subclass'.some
                     /\ current_subclass'.val.id = current_subclass.val.id
                     /\ current_subclass'.val.rec.name = current_subclass.val.rec.name
                     /\ Extends(current_subclass.val.rec.prog_ifs,
                                current_subclass'.val.rec.prog_ifs)
                     /\ current_class' = current_class
                     /\ classes' = classes
                  \/ /\ current_class.some
                     /\ Fresh(current_subclass', "prog_ifs")
                     /\ \/ current_class' = Some([id |-> current_class.val.id,
                                                  rec |-> ClosedClass])
                        \/ /\ classes' = Insert(classes, current_class.val.id, ClosedClass)
                           /\ current_subclass' = None]_vars
    /\ [](Returned =>
             /\ current_vendor = None /\ current_device = None
             /\ current_class = None /\ current_subclass = None
             /\ vendors = db.vendors /\ classes = db.classes)

\* a vendor id is open again, without devices, while the record committed
\* earlier under the same id keeps the device that was committed with it
C21_Witness ==
    /\ ~result.some
    /\ current_vendor.some
    /\ current_vendor.val.rec.devices = EmptyMap
    /\ current_vendor.val.id \in DOMAIN vendors
    /\ vendors[current_vendor.val.id].devices # EmptyMap

\* ------------------------------------------------- leaves without a parent
ParseFailure == [kind |-> "Err", err |-> "Parse"]

\* C22: a leaf without an open parent is fatal. When a Subdevice line is read
\* while no device is open, or a ProgIf line while no subclass is open,
\* parse_db returns a Parse error and nothing is attached anywhere; no device
\* is open directly after a Vendor line and no subclass directly after a
\* Class line, so a leaf that follows one fails.
C22_OrphanLeafIsFatal ==
    /\ [][(JustRead /\ ~current_device.some
              /\ next_event(section, LastLineNext).kind = "Subdevice")
          => (result' = Some(ParseFailure) /\ KeepLocals)]_vars
    /\ [][(JustRead /\ ~current_subclass.some
              /\ next_event(section, LastLineNext).kind = "ProgIf")
          => (result' = Some(ParseFailure) /\ KeepLocals)]_vars
    /\ [][(JustRead /\ current_device'.some /\ ~result'.some)
          => next_event(section, LastLineNext).kind # "Vendor"]_vars
    /\ [][(JustRead /\ current_subclass'.some /\ ~result'.some)
          => next_event(section, LastLineNext).kind # "Class"]_vars

\* parse_db failed on a Subdevice line read directly after a Vendor line,
\* while an earlier vendor with a device is in the map
C22_Witness ==
    /\ result = Some(ParseFailure)
    /\ section = "Devices"
    /\ Len(stream) >= 3
    /\ next_event("Devices", LastLine).kind = "Subdevice"
    /\ next_event("Devices", stream[Len(stream) - 1]).kind = "Vendor"
    /\ \E v \in DOMAIN vendors : vendors[v].devices # EmptyMap

\* parse_db failed on a ProgIf line read directly after a Class line, while
\* an earlier class with a subclass is in the map
C22_WitnessProgIf ==
    /\ result = Some(ParseFailure)
    /\ section = "Classes"
    /\ Len(stream) >= 3
    /\ next_event("Classes", LastLine).kind = "ProgIf"
    /\ next_event("Classes", stream[Len(stream) - 1]).kind = "Class"
    /\ \E c \in DOMAIN classes : classes[c].subclasses # EmptyMap

\* ------------------------------------------------- a device without a vendor
\* some Device event of E has no Vendor event before it
HasOrphanDevice(E) ==
    \E i \in 1..Len(E) :
        /\ E[i].kind = "Device"
        /\ \A j \in 1..(i - 1) : E[j].kind # "Vendor"

\* C23: a device with no vendor is always fatal. For every content in which
\* a Device line comes before any Vendor line, parse_db returns Err, whatever
\* lines follow; it never returns a Database.
C23_OrphanDeviceIsFatal ==
    (Called("parse_db") /\ HasOrphanDevice(Events)) =>
        /\ result.val.out.kind = "Err"
        /\ DOMAIN result.val.out \cap {"vendors", "classes"} = {}

\* parse_db has failed at the end of a content that opens a device without a
\* vendor and goes on with well-formed class-section lines: the error comes
\* from the final flush
C23_Witness ==
    /\ Called("parse_db")
    /\ Len(stream) = 3
    /\ next_event("Devices", stream[1]).kind = "Device"
    /\ next_event("Devices", stream[2]).kind = "Class"
    /\ next_event("Classes", stream[3]).kind = "SubClass"
    /\ result.val.out = DbErr(3)

\* ------------------------------------------------------------- early exit
\* what next_event makes of each line of s, line by line
RECURSIVE LineEventsFrom(_, _, _)
LineEventsFrom(s, pos, sec) ==
    IF pos > Len(s) THEN <<>>
    ELSE LET ev == next_event(sec, s[pos]) IN
         <<ev>> \o LineEventsFrom(s, pos + 1, ev.section)

LineEvents(s) == LineEventsFrom(s, 1, "Devices")

\* the least element of a set of line numbers, 0 if it is empty
Least(S) == IF S = {} THEN 0 ELSE First(S)

\* The line whose event decides the answer of a search, 0 if there is none:
\* the matching event, or the event that ends the range the match could be
\* in (for a device the next vendor; for a subdevice the next vendor, or the
\* first event after the parent device that is not a subdevice).
DecidingLine(call, s) ==
    LET E  == LineEvents(s)
        a  == [i \in 1..Len(call.args) |-> format_x(call.args[i])]
        v  == Least({i \in 1..Len(E) : E[i].kind = "Vendor" /\ E[i].id = a[1]})
        IsDev(i) == E[i].kind = "Device" /\ E[i].id = a[2]
        j  == Least({i \in (v + 1)..Len(E) : E[i].kind = "Vendor" \/ IsDev(i)})
        IsSub(i) == /\ E[i].kind = "Subdevice"
                    /\ E[i].subvendor = a[3] /\ E[i].subdevice = a[4]
        k  == Least({i \in (j + 1)..Len(E) :
                        \/ E[i].kind \in EventKinds \ {"Subdevice"}
                        \/ IsSub(i)})
    IN CASE call.fn = "find_vendor_name" -> v
         [] call.fn = "find_device_name" -> IF v = 0 THEN 0 ELSE j
         [] call.fn = "find_subdevice_name" ->
                IF v = 0 \/ j = 0 THEN 0
                ELSE IF E[j].kind = "Vendor" THEN j
                ELSE k

\* a line no shape of either section matches: one space after the id
MalformedLine == Tok1a00 \o <<SP>> \o NameA \o <<NL>>

\* C24: early exit. A search whose deciding event comes before any line
\* that fails classification returns Ok having read exactly up to the
\* deciding line; nothing after it is read: the outcome is the same when
\* the rest of the content is replaced by a malformed line.
C24_EarlyExit ==
    IsSearch =>
        LET r == result.val.out
            d == DecidingLine(result.val.call, stream)
            e == FirstErrLine(stream)
        IN (d > 0 /\ (e = 0 \/ d < e)) =>
               /\ r.kind = "Ok"
               /\ r.read = d
               /\ Apply(result.val.call,
                        Append(SubSeq(stream, 1, d), MalformedLine)) = r

\* a device search has stopped at the vendor that follows the matching
\* vendor and returned Ok(None), with a malformed line left unread
C24_Witness ==
    /\ Called("find_device_name")
    /\ Len(stream) = 3
    /\ result.val.out = NotFound(2)
    /\ stream[3] = MalformedLine

\* ------------------------------------------------- blank and comment lines
\* a blank line or a line that starts with '#'
IsSkipLine(raw) == raw = <<NL>> \/ (Len(raw) > 0 /\ raw[1] = "#")

\* s without its blank and comment lines
Strip(s) == SelectSeq(s, LAMBDA raw : ~IsSkipLine(raw))

\* an outcome without the count of lines read
NoRead(r) == [x \in DOMAIN r \ {"read"} |-> r[x]]

\* C25: blank lines and lines starting with '#' produce no event in either
\* section: the events next_event returns for a content are those it returns
\* with the blank and comment lines removed, and every call has the same
\* outcome on both, having read the same record lines.
C25_SkipLinesInvisible ==
    (result.some /\ Strip(stream) # stream) =>
        LET t == Strip(stream)
            r == result.val.out
            q == Apply(result.val.call, t)
        IN /\ EventsFrom(t, 1, "Devices") = Events
           /\ NoRead(q) = NoRead(r)
           /\ q.read = Len(Strip(SubSeq(stream, 1, r.read)))

\* a device search has found its name in a content with a blank or
\* comment line between the lines of the record
C25_Witness ==
    /\ Called("find_device_name")
    /\ Len(stream) = 3
    /\ IsSkipLine(stream[2])
    /\ result.val.out.kind = "Ok"
    /\ result.val.out.val.some
    /\ result.val.out.read = 3

\* ------------------------------------------------------ the missing delimiter
\* two spaces at lanes `lane` and `lane + 1` of the line
DelimiterAt(buf, lane) ==
    Len(buf) >= lane + 2 /\ buf[lane + 1] = SP /\ buf[lane + 2] = SP

\* where the shapes of a section have their delimiter: in the device section
\* after "vvvv" and "C cc" (lane 4), after a tab and "dddd" (lane 5), after
\* two tabs and "ssss dddd" (lane 11); in the class section after "C cc" and
\* after two tabs and "pp" (lane 4), after a tab and "ss" (lane 3)
DelimiterLanes(sec) == IF sec = "Devices" THEN {4, 5, 11} ELSE {3, 4}

LacksDelimiter(sec, buf) == \A lane \in DelimiterLanes(sec) : ~DelimiterAt(buf, lane)

\* C26: a line that is neither blank nor a comment and has the two-space
\* delimiter at none of the positions the shapes of the current section
\* require makes next_event return a Parse error, no event, and leaves the
\* section as it is.
C26_MissingDelimiterIsError ==
    [][(JustRead /\ ~IsSkipLine(LastLineNext)
            /\ LacksDelimiter(section, Body(LastLineNext)))
        => (result' = Some(ParseErr(section)) /\ section' = section)]_vars

\* next_event has failed in the device section on a line with four hex
\* digits, a single space and a name
C26_Witness ==
    /\ stream = <<MalformedLine>>
    /\ result = Some(ParseErr("Devices"))

\* next_event has failed in the class section on a line with the two spaces
\* after three digits
C26_WitnessClasses ==
    /\ stream = <<VendorLine(Tok1a0, NameA)>>
    /\ result = Some(ParseErr("Classes"))

\* ------------------------------------------------------------ slice bounds
\* the needle and mask of each shape, and the largest index its arm slices
\* with: the end of the last id slice or the start of the name slice
ShapeNeedle ==
    [Vendor |-> VENDOR_NEEDLE, Device |-> DEVICE_NEEDLE, Subdevice |-> SUBDEVICE_NEEDLE,
     Class |-> CLASS_NEEDLE, SubClass |-> SUBCLASS_NEEDLE, ProgIf |-> PROG_IF_NEEDLE]
ShapeMask ==
    [Vendor |-> VENDOR_MASK, Device |-> DEVICE_MASK, Subdevice |-> SUBDEVICE_MASK,
     Class |-> CLASS_MASK, SubClass |-> SUBCLASS_MASK, ProgIf |-> PROG_IF_MASK]
SliceBound ==
    [Vendor |-> 6, Device |-> 7, Subdevice |-> 13,
     Class |-> 6, SubClass |-> 5, ProgIf |-> 6]

\* C27: classification never reads past the end of a line. For every line
\* read, of any length, whenever the mask of a shape matches the window copy
\* of the line, the largest slice index of that shape is at most the length
\* of the line; and no call of next_event ends in a panic.
C27_SlicesWithinLine ==
    /\ [][JustRead =>
            LET buf == Body(LastLineNext) IN
            \A kind \in EventKinds :
                matches_pattern(buf_to_vector(buf), ShapeNeedle[kind], ShapeMask[kind])
                    => SliceBound[kind] <= Len(buf)]_vars
    /\ [](result.some => result.val.kind # "Panic")

\* a line of six bytes, shorter than the window, has matched the vendor mask
\* and given an event whose name slice starts at the end of the line
C27_Witness ==
    /\ Len(stream) = 1
    /\ Len(Body(stream[1])) = 6
    /\ result.some
    /\ result.val.kind = "Vendor"
    /\ result.val.name = <<>>

\* ------------------------------------------------- the section after an error
\* C28: a failed call of next_event leaves the parser's section unchanged:
\* whenever the call that reads a line returns Err, the section after the
\* call is the section before it.
C28_ErrorKeepsSection ==
    [][(JustRead /\ next_event(section, LastLineNext).kind = "Err")
        => section' = section]_vars

====
